---- MODULE Spec2Model ----
(***************************************************************************)
(* Model of gofigure.go: ParseStruct / Apply / Gofigure, the struct-tag    *)
(* parser, the source lifecycle (Init, Register, Get/GetArray, Cleanup)    *)
(* and the strconv-based coercion of source strings into struct fields.    *)
(*                                                                         *)
(* Go strings are modelled as tuples of one-character strings, so that     *)
(* parsing (tags, integers, booleans) is computed character by character.  *)
(***************************************************************************)
EXTENDS Integers, Sequences, FiniteSets, TLC

\* ------------------------------------------------------------------------
\* Bounds of the model
\* ------------------------------------------------------------------------

\* number of entry-point calls (ParseStruct, Apply, Gofigure) in one behaviour
MaxCalls == 2

\* ------------------------------------------------------------------------
\* Characters and small string helpers
\* ------------------------------------------------------------------------

Digits == <<"0", "1", "2", "3", "4", "5", "6", "7", "8", "9">>

Lower == {"a", "b", "c", "d", "e", "f", "g", "h", "i", "j", "k", "l", "m",
          "n", "o", "p", "q", "r", "s", "t", "u", "v", "w", "x", "y", "z"}

Upper == {"A", "B", "C", "D", "E", "F", "G", "H", "I", "J", "K", "L", "M",
          "N", "O", "P", "Q", "R", "S", "T", "U", "V", "W", "X", "Y", "Z"}

UpperSeq == <<"A", "B", "C", "D", "E", "F", "G", "H", "I", "J", "K", "L", "M",
              "N", "O", "P", "Q", "R", "S", "T", "U", "V", "W", "X", "Y", "Z">>

LowerSeq == <<"a", "b", "c", "d", "e", "f", "g", "h", "i", "j", "k", "l", "m",
              "n", "o", "p", "q", "r", "s", "t", "u", "v", "w", "x", "y", "z">>

IsDigit(c) == \E i \in 1..10 : Digits[i] = c

DigitVal(c) == (CHOOSE i \in 1..10 : Digits[i] = c) - 1

\* s[from:] of Go (from is a 0-based offset)
Drop(s, from) == IF from >= Len(s) THEN <<>> ELSE SubSeq(s, from + 1, Len(s))

\* s[:to] of Go
Take(s, to) == IF to <= 0 THEN <<>> ELSE SubSeq(s, 1, to)

\* s[i] of Go (0-based)
At(s, i) == s[i + 1]

\* strings.ToLower on the ASCII letters
ToLowerChar(c) ==
    IF c \in Upper THEN LowerSeq[CHOOSE i \in 1..26 : UpperSeq[i] = c] ELSE c

ToLower(s) == [i \in 1..Len(s) |-> ToLowerChar(s[i])]


\* ------------------------------------------------------------------------
\* strconv: ParseBool, ParseInt, ParseUint, ParseFloat
\* ------------------------------------------------------------------------

TrueLits == { <<"1">>, <<"t">>, <<"T">>, <<"T","R","U","E">>,
              <<"t","r","u","e">>, <<"T","r","u","e">> }

FalseLits == { <<"0">>, <<"f">>, <<"F">>, <<"F","A","L","S","E">>,
               <<"f","a","l","s","e">>, <<"F","a","l","s","e">> }

\* strconv.ParseBool
ParseBool(s) ==
    IF s \in TrueLits THEN [err |-> "nil", v |-> TRUE]
    ELSE IF s \in FalseLits THEN [err |-> "nil", v |-> FALSE]
    ELSE [err |-> "ErrSyntax", v |-> FALSE]

AllDigits(s) == \A i \in 1..Len(s) : IsDigit(s[i])

RECURSIVE DecValue(_)
DecValue(s) ==
    IF Len(s) = 0 THEN 0
    ELSE 10 * DecValue(SubSeq(s, 1, Len(s) - 1)) + DigitVal(s[Len(s)])

\* Integers are read as numerals: a sign and the decimal digits of the
\* magnitude without leading zeros, so that the 32- and 64-bit ranges are
\* checked exactly (the integer arithmetic of TLC ends at 2^31 - 1).
Num(neg, mag) == [neg |-> neg /\ mag # <<"0">>, mag |-> mag]

RECURSIVE StripZeros(_)
StripZeros(s) ==
    IF Len(s) > 1 /\ s[1] = "0" THEN StripZeros(Tail(s)) ELSE s

RECURSIVE LexLE(_, _)
\* a <= b for digit strings of the same length
LexLE(a, b) ==
    IF Len(a) = 0 THEN TRUE
    ELSE IF DigitVal(a[1]) # DigitVal(b[1]) THEN DigitVal(a[1]) < DigitVal(b[1])
    ELSE LexLE(Tail(a), Tail(b))

\* a <= b for magnitudes without leading zeros
MagLE(a, b) == Len(a) < Len(b) \/ (Len(a) = Len(b) /\ LexLE(a, b))

\* 1<<bitSize - 1: the largest magnitude ParseUint(s, 10, bitSize) accepts
UintMax(bitSize) ==
    CASE bitSize = 8  -> <<"2", "5", "5">>
      [] bitSize = 16 -> <<"6", "5", "5", "3", "5">>
      [] bitSize = 32 -> <<"4", "2", "9", "4", "9", "6", "7", "2", "9", "5">>
      [] OTHER        -> <<"1", "8", "4", "4", "6", "7", "4", "4", "0", "7", "3", "7", "0", "9", "5", "5", "1", "6", "1", "5">>

\* strconv.ParseUint(s, 10, bitSize): no sign, digits only, range checked
ParseUint(s, bitSize) ==
    IF Len(s) = 0 \/ ~AllDigits(s) THEN [err |-> "ErrSyntax", v |-> Num(FALSE, <<"0">>)]
    ELSE IF ~MagLE(StripZeros(s), UintMax(bitSize))
         THEN [err |-> "ErrRange", v |-> Num(FALSE, UintMax(bitSize))]
    ELSE [err |-> "nil", v |-> Num(FALSE, StripZeros(s))]

\* 1 << (bitSize-1)
IntCutoff(bitSize) ==
    CASE bitSize = 8  -> <<"1", "2", "8">>
      [] bitSize = 16 -> <<"3", "2", "7", "6", "8">>
      [] bitSize = 32 -> <<"2", "1", "4", "7", "4", "8", "3", "6", "4", "8">>
      [] OTHER        -> <<"9", "2", "2", "3", "3", "7", "2", "0", "3", "6", "8", "5", "4", "7", "7", "5", "8", "0", "8">>

\* cutoff - 1
IntMax(bitSize) ==
    CASE bitSize = 8  -> <<"1", "2", "7">>
      [] bitSize = 16 -> <<"3", "2", "7", "6", "7">>
      [] bitSize = 32 -> <<"2", "1", "4", "7", "4", "8", "3", "6", "4", "7">>
      [] OTHER        -> <<"9", "2", "2", "3", "3", "7", "2", "0", "3", "6", "8", "5", "4", "7", "7", "5", "8", "0", "7">>

\* strconv.ParseInt(s, 10, bitSize): optional sign, digits, range checked
ParseInt(s, bitSize) ==
    IF Len(s) = 0 THEN [err |-> "ErrSyntax", v |-> Num(FALSE, <<"0">>)]
    ELSE
      LET neg  == s[1] = "-"
          body == IF s[1] \in {"+", "-"} THEN Drop(s, 1) ELSE s
          mag  == StripZeros(body)
      IN  IF Len(body) = 0 \/ ~AllDigits(body)
            THEN [err |-> "ErrSyntax", v |-> Num(FALSE, <<"0">>)]
          ELSE IF ~neg /\ MagLE(IntCutoff(bitSize), mag)
            THEN [err |-> "ErrRange", v |-> Num(FALSE, IntMax(bitSize))]
          ELSE IF neg /\ ~MagLE(mag, IntCutoff(bitSize))
            THEN [err |-> "ErrRange", v |-> Num(TRUE, IntCutoff(bitSize))]
          ELSE [err |-> "nil", v |-> Num(neg, mag)]

\* A float is kept as the exact decimal m * 10^(-e), normalised so that equal
\* decimals are equal values (no trailing zero in the fraction).
RECURSIVE NormFloat(_, _)
NormFloat(m, e) ==
    IF m = 0 THEN [m |-> 0, e |-> 0]
    ELSE IF e > 0 /\ m % 10 = 0 THEN NormFloat(m \div 10, e - 1)
    ELSE [m |-> m, e |-> e]

DotPos(s) == IF \E i \in 1..Len(s) : s[i] = "."
             THEN CHOOSE i \in 1..Len(s) : s[i] = "." /\ \A j \in 1..(i-1) : s[j] # "."
             ELSE 0

\* strconv.ParseFloat on plain decimals: [sign] digits [. digits]
ParseFloat(s, bitSize) ==
    IF Len(s) = 0 THEN [err |-> "ErrSyntax", v |-> NormFloat(0, 0)]
    ELSE
      LET neg  == s[1] = "-"
          body == IF s[1] \in {"+", "-"} THEN Drop(s, 1) ELSE s
          dot  == DotPos(body)
          ip   == IF dot = 0 THEN body ELSE Take(body, dot - 1)
          fp   == IF dot = 0 THEN <<>> ELSE Drop(body, dot)
          mag  == DecValue(ip \o fp)
      IN  IF Len(ip) + Len(fp) = 0 \/ ~AllDigits(ip) \/ ~AllDigits(fp)
            THEN [err |-> "ErrSyntax", v |-> NormFloat(0, 0)]
          ELSE [err |-> "nil",
                v |-> NormFloat(IF neg THEN 0 - mag ELSE mag, Len(fp))]

numValKept(i) == i

\* numVal: the empty string reads as "0"
numVal(i) == IF Len(i) = 0 THEN <<"0">> ELSE i

\* ------------------------------------------------------------------------
\* Maps (Go map[string]T): functions whose domain is a set of strings
\* ------------------------------------------------------------------------

EmptyMap == [x \in {} |-> <<>>]

MapPut(m, k, v) == [x \in (DOMAIN m) \cup {k} |-> IF x = k THEN v ELSE m[x]]

\* ------------------------------------------------------------------------
\* getStructTags and strconv.Unquote
\* ------------------------------------------------------------------------

\* the character an escape sequence \c of a double-quoted string stands for;
\* "" marks an invalid escape.  Hex, unicode and octal escapes are outside
\* the alphabet of the tag strings of the model.
EscapeChar(c) ==
    CASE c = "\\" -> "\\"
      [] c = "\"" -> "\""
      [] c = "n"  -> "\n"
      [] c = "t"  -> "\t"
      [] c = "r"  -> "\r"
      [] c = "f"  -> "\f"
      [] c = "a"  -> "BEL"
      [] c = "b"  -> "BS"
      [] c = "v"  -> "VT"
      [] OTHER    -> ""

RECURSIVE UnquoteBody(_)
\* the inner text of a quoted string with its escapes resolved
UnquoteBody(s) ==
    IF Len(s) = 0 THEN [ok |-> TRUE, v |-> <<>>]
    ELSE IF s[1] = "\\"
      THEN IF Len(s) < 2 \/ EscapeChar(s[2]) = ""
             THEN [ok |-> FALSE, v |-> <<>>]
             ELSE LET rest == UnquoteBody(Drop(s, 2))
                  IN  [ok |-> rest.ok, v |-> <<EscapeChar(s[2])>> \o rest.v]
    ELSE IF s[1] \in {"\"", "\n"}
      THEN [ok |-> FALSE, v |-> <<>>]
    ELSE LET rest == UnquoteBody(Drop(s, 1))
         IN  [ok |-> rest.ok, v |-> <<s[1]>> \o rest.v]

\* value, _ := strconv.Unquote(qvalue): the empty string on an error
Unquote(qvalue) ==
    IF Len(qvalue) < 2 \/ qvalue[1] # "\"" \/ qvalue[Len(qvalue)] # "\""
      THEN <<>>
      ELSE LET r == UnquoteBody(SubSeq(qvalue, 2, Len(qvalue) - 1))
           IN  IF r.ok THEN r.v ELSE <<>>

RECURSIVE SkipSpaces(_, _)
\* for i < len(tag) && tag[i] == ' ' { i++ }
SkipSpaces(tag, i) ==
    IF i < Len(tag) /\ At(tag, i) = " " THEN SkipSpaces(tag, i + 1) ELSE i

RECURSIVE ScanName(_, _)
\* for i < len(tag) && tag[i] != ' ' && tag[i] != ':' && tag[i] != '"' { i++ }
ScanName(tag, i) ==
    IF i < Len(tag) /\ At(tag, i) \notin {" ", ":", "\""}
      THEN ScanName(tag, i + 1) ELSE i

RECURSIVE ScanQuoted(_, _)
\* for i < len(tag) && tag[i] != '"' { if tag[i] == '\\' { i++ }; i++ }
ScanQuoted(tag, i) ==
    IF i < Len(tag) /\ At(tag, i) # "\""
      THEN ScanQuoted(tag, IF At(tag, i) = "\\" THEN i + 2 ELSE i + 1)
      ELSE i

RECURSIVE TagLoopStrict(_, _)
TagLoopStrict(tag, m) ==
    IF Len(tag) = 0 THEN m
    ELSE
      LET t1 == Drop(tag, SkipSpaces(tag, 0))
          i  == ScanName(t1, 0)
      IN  IF Len(t1) = 0 THEN m
          ELSE IF i + 1 >= Len(t1) \/ At(t1, i) # ":" \/ At(t1, i + 1) # "\""
            THEN EmptyMap
          ELSE
            LET name == Take(t1, i)
                t2   == Drop(t1, i + 1)
                j    == ScanQuoted(t2, 1)
            IN  IF j >= Len(t2) THEN EmptyMap
                ELSE TagLoopStrict(Drop(t2, j + 1),
                                   MapPut(m, name, Unquote(Take(t2, j + 1))))

RECURSIVE TagLoop(_, _)
\* the loop of getStructTags: tag is the text still to read, m the map so far
TagLoop(tag, m) ==
    IF Len(tag) = 0 THEN m
    ELSE
      LET t1 == Drop(tag, SkipSpaces(tag, 0))
          i  == ScanName(t1, 0)
      IN  IF Len(t1) = 0 THEN m
          ELSE IF i + 1 >= Len(t1) \/ At(t1, i) # ":" \/ At(t1, i + 1) # "\""
            THEN m
          ELSE
            LET name == Take(t1, i)
                t2   == Drop(t1, i + 1)
                j    == ScanQuoted(t2, 1)
            IN  IF j >= Len(t2) THEN m
                ELSE TagLoop(Drop(t2, j + 1),
                             MapPut(m, name, Unquote(Take(t2, j + 1))))

getStructTags(tag) == TagLoop(tag, EmptyMap)

\* ------------------------------------------------------------------------
\* strings.Split(value, ",") and the regexp argRe
\* ------------------------------------------------------------------------

RECURSIVE Split(_, _)
Split(s, sep) ==
    IF \E i \in 1..Len(s) : s[i] = sep
      THEN LET p == CHOOSE i \in 1..Len(s) :
                        s[i] = sep /\ \A j \in 1..(i - 1) : s[j] # sep
           IN  <<Take(s, p - 1)>> \o Split(Drop(s, p), sep)
      ELSE <<s>>

RECURSIVE RunBack(_, _)
\* start (1-based) of the run of lower-case letters that ends at position q
RunBack(s, q) == IF q > 1 /\ s[q - 1] \in Lower THEN RunBack(s, q - 1) ELSE q

RECURSIVE RunFwd(_, _)
\* end (1-based) of the run of lower-case letters that starts at position p
RunFwd(s, p) == IF p < Len(s) /\ s[p + 1] \in Lower THEN RunFwd(s, p + 1) ELSE p

\* positions q with s[q] lower, s[q+1] upper, s[q+2] lower
ArgRePoints(s) ==
    { q \in 1..(Len(s) - 2) :
        s[q] \in Lower /\ s[q + 1] \in Upper /\ s[q + 2] \in Lower }

\* argRe.FindStringSubmatch(name) for argRe = ([a-z]+)([A-Z][a-z]+): the
\* leftmost match; <<>> when there is none, else <<whole, group1, group2>>
argReMatch(s) ==
    IF ArgRePoints(s) = {} THEN <<>>
    ELSE LET q  == CHOOSE x \in ArgRePoints(s) : \A y \in ArgRePoints(s) : x <= y
             g1 == SubSeq(s, RunBack(s, q), q)
             g2 == SubSeq(s, q + 1, RunFwd(s, q + 2))
         IN  <<g1 \o g2, g1, g2>>

\* ------------------------------------------------------------------------
\* Names, types and the struct types of the model
\* ------------------------------------------------------------------------

sENV      == <<"e","n","v">>
sFLAG     == <<"f","l","a","g">>
sBOGUS    == <<"b","o","g","u","s">>
sORDER    == <<"o","r","d","e","r">>
sGOFIGURE == <<"g","o","f","i","g","u","r","e">>
sFALSE    == <<"f","a","l","s","e">>

\* var Sources = map[string]sources.Source{"env": ..., "flag": ...}
Sources == {sENV, sFLAG}

\* var DefaultOrder = []string{"env", "flag"}
DefaultOrder == <<sENV, sFLAG>>

\* a reflect.Type: its Kind() and, for a slice, its Elem().Kind()
Scalar(k)  == [kind |-> k, elem |-> "none"]
SliceOf(k) == [kind |-> "slice", elem |-> k]

BitSizeByteAsShort(k) ==
    CASE k \in {"int8", "uint8", "int16", "uint16"} -> 16
      [] k \in {"int32", "uint32", "float32"}      -> 32
      [] OTHER                                     -> 64

\* the bitSize handed to strconv for each integer and float kind
BitSize(k) ==
    CASE k \in {"int8", "uint8"}                   -> 8
      [] k \in {"int16", "uint16"}                 -> 16
      [] k \in {"int32", "uint32", "float32"}      -> 32
      [] OTHER                                     -> 64

SignedKinds   == {"int", "int8", "int16", "int32", "int64"}
UnsignedKinds == {"uint", "uint8", "uint16", "uint32", "uint64"}
FloatKinds    == {"float32", "float64"}

\* the integer kinds of more than 16 bits: the model keeps their values as
\* numerals, and the values of the 8- and 16-bit kinds as integers
WideKinds == {"int", "int32", "int64", "uint", "uint32", "uint64"}

\* the value SetInt(i) / SetUint(i) gives a field of this kind, i being in
\* the range of the kind
IntOfKind(kind, n) ==
    IF kind \in WideKinds THEN n
    ELSE IF n.neg THEN 0 - DecValue(n.mag) ELSE DecValue(n.mag)

\* the result of ParseInt or ParseUint as a value of this kind
AsKind(kind, r) == [err |-> r.err, v |-> IntOfKind(kind, r.v)]

\* the kinds populateStruct rejects before any source is asked
RejectedKinds == {"invalid", "uintptr", "complex64", "complex128", "chan",
                  "func", "ptr", "unsafepointer", "interface", "map",
                  "struct", "array"}

\* a key:"value" pair of a struct tag
Pair(k, v) == k \o <<":", "\"">> \o v \o <<"\"">>

\* a reflect.StructField: Name, Type and Tag
Field(n, t, tag) == [name |-> n, type |-> t, tag |-> tag]

\* the sentinel field `gofigure interface{}` with its tag
Sentinel(tag) == Field(sGOFIGURE, Scalar("interface"), tag)

fA == <<"A">>
fB == <<"B">>

\* the field types of the one-field structs
OneFieldTypes ==
    { Scalar("bool"), Scalar("int8"), Scalar("int16"), Scalar("uint8"),
      Scalar("string"), Scalar("float64"),
      SliceOf("string"), SliceOf("int8"), SliceOf("uint8"),
      SliceOf("float64"), SliceOf("bool"),
      Scalar("struct"), Scalar("map"), Scalar("ptr") }

\* the tags of the sentinel field
SentinelTags ==
    { Pair(sORDER, sFLAG),
      Pair(sORDER, sFLAG \o <<",">> \o sENV),
      Pair(sORDER, sENV \o <<",">> \o sENV),
      Pair(sORDER, sFLAG \o <<",">> \o sBOGUS),
      Pair(sENV \o <<"P","r","e","f","i","x">>, <<"X">>) }

\* ------------------------------------------------------------------------
\* Integers at the ends of the 8-, 16-, 32- and 64-bit ranges
\* ------------------------------------------------------------------------

\* the integer kinds of a fixed width
FixedWidthKinds == {"int8", "int16", "int32", "int64",
                    "uint8", "uint16", "uint32", "uint64"}

\* base-10 integers next to the ends of the ranges: the string s a source
\* returns, the integer it denotes (as a numeral, and as a number when it is
\* below 2^16) and the kinds whose range holds it
Numerals ==
    { [s |-> <<"-", "9", "2", "2", "3", "3", "7", "2", "0", "3", "6", "8", "5", "4", "7", "7", "5", "8", "0", "9">>,
        num |-> [neg |-> TRUE, mag |-> <<"9", "2", "2", "3", "3", "7", "2", "0", "3", "6", "8", "5", "4", "7", "7", "5", "8", "0", "9">>], small |-> 0,
        fits |-> {}],
      [s |-> <<"-", "9", "2", "2", "3", "3", "7", "2", "0", "3", "6", "8", "5", "4", "7", "7", "5", "8", "0", "8">>,
        num |-> [neg |-> TRUE, mag |-> <<"9", "2", "2", "3", "3", "7", "2", "0", "3", "6", "8", "5", "4", "7", "7", "5", "8", "0", "8">>], small |-> 0,
        fits |-> {"int64"}],
      [s |-> <<"-", "2", "1", "4", "7", "4", "8", "3", "6", "4", "9">>,
        num |-> [neg |-> TRUE, mag |-> <<"2", "1", "4", "7", "4", "8", "3", "6", "4", "9">>], small |-> 0,
        fits |-> {"int64"}],
      [s |-> <<"-", "2", "1", "4", "7", "4", "8", "3", "6", "4", "8">>,
        num |-> [neg |-> TRUE, mag |-> <<"2", "1", "4", "7", "4", "8", "3", "6", "4", "8">>], small |-> 0,
        fits |-> {"int32", "int64"}],
      [s |-> <<"-", "3", "2", "7", "6", "9">>,
        num |-> [neg |-> TRUE, mag |-> <<"3", "2", "7", "6", "9">>], small |-> 0 - 32769,
        fits |-> {"int32", "int64"}],
      [s |-> <<"-", "3", "2", "7", "6", "8">>,
        num |-> [neg |-> TRUE, mag |-> <<"3", "2", "7", "6", "8">>], small |-> 0 - 32768,
        fits |-> {"int16", "int32", "int64"}],
      [s |-> <<"-", "1", "2", "9">>,
        num |-> [neg |-> TRUE, mag |-> <<"1", "2", "9">>], small |-> 0 - 129,
        fits |-> {"int16", "int32", "int64"}],
      [s |-> <<"-", "1", "2", "8">>,
        num |-> [neg |-> TRUE, mag |-> <<"1", "2", "8">>], small |-> 0 - 128,
        fits |-> {"int8", "int16", "int32", "int64"}],
      [s |-> <<"-", "1">>,
        num |-> [neg |-> TRUE, mag |-> <<"1">>], small |-> 0 - 1,
        fits |-> {"int8", "int16", "int32", "int64"}],
      [s |-> <<"0", "0", "7">>,
        num |-> [neg |-> FALSE, mag |-> <<"7">>], small |-> 7,
        fits |-> {"int8", "int16", "int32", "int64", "uint8", "uint16", "uint32", "uint64"}],
      [s |-> <<"1", "2", "7">>,
        num |-> [neg |-> FALSE, mag |-> <<"1", "2", "7">>], small |-> 127,
        fits |-> {"int8", "int16", "int32", "int64", "uint8", "uint16", "uint32", "uint64"}],
      [s |-> <<"1", "2", "8">>,
        num |-> [neg |-> FALSE, mag |-> <<"1", "2", "8">>], small |-> 128,
        fits |-> {"int16", "int32", "int64", "uint8", "uint16", "uint32", "uint64"}],
      [s |-> <<"2", "5", "5">>,
        num |-> [neg |-> FALSE, mag |-> <<"2", "5", "5">>], small |-> 255,
        fits |-> {"int16", "int32", "int64", "uint8", "uint16", "uint32", "uint64"}],
      [s |-> <<"2", "5", "6">>,
        num |-> [neg |-> FALSE, mag |-> <<"2", "5", "6">>], small |-> 256,
        fits |-> {"int16", "int32", "int64", "uint16", "uint32", "uint64"}],
      [s |-> <<"3", "2", "7", "6", "7">>,
        num |-> [neg |-> FALSE, mag |-> <<"3", "2", "7", "6", "7">>], small |-> 32767,
        fits |-> {"int16", "int32", "int64", "uint16", "uint32", "uint64"}],
      [s |-> <<"3", "2", "7", "6", "8">>,
        num |-> [neg |-> FALSE, mag |-> <<"3", "2", "7", "6", "8">>], small |-> 32768,
        fits |-> {"int32", "int64", "uint16", "uint32", "uint64"}],
      [s |-> <<"6", "5", "5", "3", "5">>,
        num |-> [neg |-> FALSE, mag |-> <<"6", "5", "5", "3", "5">>], small |-> 65535,
        fits |-> {"int32", "int64", "uint16", "uint32", "uint64"}],
      [s |-> <<"6", "5", "5", "3", "6">>,
        num |-> [neg |-> FALSE, mag |-> <<"6", "5", "5", "3", "6">>], small |-> 0,
        fits |-> {"int32", "int64", "uint32", "uint64"}],
      [s |-> <<"2", "1", "4", "7", "4", "8", "3", "6", "4", "7">>,
        num |-> [neg |-> FALSE, mag |-> <<"2", "1", "4", "7", "4", "8", "3", "6", "4", "7">>], small |-> 0,
        fits |-> {"int32", "int64", "uint32", "uint64"}],
      [s |-> <<"2", "1", "4", "7", "4", "8", "3", "6", "4", "8">>,
        num |-> [neg |-> FALSE, mag |-> <<"2", "1", "4", "7", "4", "8", "3", "6", "4", "8">>], small |-> 0,
        fits |-> {"int64", "uint32", "uint64"}],
      [s |-> <<"4", "2", "9", "4", "9", "6", "7", "2", "9", "5">>,
        num |-> [neg |-> FALSE, mag |-> <<"4", "2", "9", "4", "9", "6", "7", "2", "9", "5">>], small |-> 0,
        fits |-> {"int64", "uint32", "uint64"}],
      [s |-> <<"4", "2", "9", "4", "9", "6", "7", "2", "9", "6">>,
        num |-> [neg |-> FALSE, mag |-> <<"4", "2", "9", "4", "9", "6", "7", "2", "9", "6">>], small |-> 0,
        fits |-> {"int64", "uint64"}],
      [s |-> <<"9", "2", "2", "3", "3", "7", "2", "0", "3", "6", "8", "5", "4", "7", "7", "5", "8", "0", "7">>,
        num |-> [neg |-> FALSE, mag |-> <<"9", "2", "2", "3", "3", "7", "2", "0", "3", "6", "8", "5", "4", "7", "7", "5", "8", "0", "7">>], small |-> 0,
        fits |-> {"int64", "uint64"}],
      [s |-> <<"9", "2", "2", "3", "3", "7", "2", "0", "3", "6", "8", "5", "4", "7", "7", "5", "8", "0", "8">>,
        num |-> [neg |-> FALSE, mag |-> <<"9", "2", "2", "3", "3", "7", "2", "0", "3", "6", "8", "5", "4", "7", "7", "5", "8", "0", "8">>], small |-> 0,
        fits |-> {"uint64"}],
      [s |-> <<"1", "8", "4", "4", "6", "7", "4", "4", "0", "7", "3", "7", "0", "9", "5", "5", "1", "6", "1", "5">>,
        num |-> [neg |-> FALSE, mag |-> <<"1", "8", "4", "4", "6", "7", "4", "4", "0", "7", "3", "7", "0", "9", "5", "5", "1", "6", "1", "5">>], small |-> 0,
        fits |-> {"uint64"}],
      [s |-> <<"1", "8", "4", "4", "6", "7", "4", "4", "0", "7", "3", "7", "0", "9", "5", "5", "1", "6", "1", "6">>,
        num |-> [neg |-> FALSE, mag |-> <<"1", "8", "4", "4", "6", "7", "4", "4", "0", "7", "3", "7", "0", "9", "5", "5", "1", "6", "1", "6">>], small |-> 0,
        fits |-> {}] }

NumeralStrings == { t.s : t \in Numerals }

\* the key under which the flag source holds these integers
NumKey == <<"n">>

\* struct { gofigure interface{} `order:"flag"`; A T `flag:"n"` }
NumStructTypes ==
    { <<Sentinel(Pair(sORDER, sFLAG)), Field(fA, t, Pair(sFLAG, NumKey))>> :
        t \in { Scalar(k) : k \in FixedWidthKinds }
              \cup { SliceOf("int8"), SliceOf("uint16"), SliceOf("int32"),
                     SliceOf("uint64") } }

\* the struct types bound in the model
StructTypes ==
    { <<Field(fA, t, <<>>)>> : t \in OneFieldTypes }
    \cup { <<Sentinel(g), Field(fA, t, <<>>)>> :
             g \in SentinelTags, t \in {Scalar("int8"), SliceOf("string")} }
    \cup { <<Sentinel(<<>>)>>,
           <<Field(fA, Scalar("uint8"), Pair(sENV, <<"k">>) \o <<" ">> \o Pair(sFLAG, <<"k">>))>>,
           <<Field(fA, Scalar("int8"), <<>>), Field(fB, Scalar("struct"), <<>>)>>,
           <<Sentinel(Pair(sORDER, sENV)), Field(fA, Scalar("int8"), <<>>),
             Field(fB, Scalar("bool"), <<>>)>> }
    \cup NumStructTypes

\* ------------------------------------------------------------------------
\* Struct tags with a malformed token, for getStructTags
\* ------------------------------------------------------------------------

MaxPairs == 2

\* well-formed key:"value" tokens: the key, the text between the quotes and
\* the string that text denotes
TagPairs ==
    { [key |-> <<"a">>, raw |-> <<"1">>,      val |-> <<"1">>],
      [key |-> <<"b">>, raw |-> <<>>,         val |-> <<>>],
      [key |-> <<"a">>, raw |-> <<"x", "\\", "\"", "y">>, val |-> <<"x", "\"", "y">>],
      [key |-> <<"b">>, raw |-> <<"1", " ", "2">>, val |-> <<"1", " ", "2">>] }

Token(p) == p.key \o <<":", "\"">> \o p.raw \o <<"\"">>

\* a malformed token and what follows it: the colon is missing, the opening
\* quote is missing, or the quote is not closed before the end of the tag
BadTails ==
    { <<"b">>,
      <<"b", " ", "c", ":", "\"", "1", "\"">>,
      <<"\"", "b", "\"", ":", "\"", "1", "\"">>,
      <<"b", ":", "1", " ", "c", ":", "\"", "1", "\"">>,
      <<"b", ":", "\"", "1">>,
      <<"b", ":", "\"", "1", "\\", "\"">> }

PairSeqs == UNION { [1..n -> TagPairs] : n \in 0..MaxPairs }

RECURSIVE TagRender(_, _)
\* the tag string: the tokens of ps and then bad, one space between them
TagRender(ps, bad) ==
    IF Len(ps) = 0 THEN bad
    ELSE Token(ps[1]) \o <<" ">> \o TagRender(Tail(ps), bad)

\* struct { A int8 `tag` } for every such tag
TagStructTypes ==
    { <<Field(fA, Scalar("int8"), TagRender(ps, bad))>> :
         ps \in PairSeqs, bad \in BadTails }

\* the records (struct values) a caller may pass
RecIds == {"r1", "r2"}

\* the zero value of a field of type t
Zero(t) ==
    CASE t.kind = "bool"                        -> FALSE
      [] t.kind \in WideKinds                    -> Num(FALSE, <<"0">>)
      [] t.kind \in SignedKinds \cup UnsignedKinds -> 0
      [] t.kind \in FloatKinds                  -> NormFloat(0, 0)
      [] t.kind = "string"                      -> <<>>
      [] t.kind = "slice"                       -> <<>>
      [] OTHER                                  -> 0

\* the fields of struct type st other than the sentinel
BindableFields(st) == { i \in 1..Len(st) : st[i].name # sGOFIGURE }

\* a struct value of type st with every field zero
ZeroRecord(st) ==
    [n \in { st[i].name : i \in BindableFields(st) } |->
        Zero(st[CHOOSE i \in BindableFields(st) : st[i].name = n].type)]

\* ------------------------------------------------------------------------
\* ParseStruct: parseGofigureField and parseFields
\* ------------------------------------------------------------------------

\* t.FieldByName("gofigure"): the index of the sentinel field, 0 if absent
SentinelIndex(st) ==
    IF \E i \in 1..Len(st) : st[i].name = sGOFIGURE
      THEN CHOOSE i \in 1..Len(st) : st[i].name = sGOFIGURE
      ELSE 0

\* the tags of the sentinel field (no tags without a sentinel)
SentinelTagMap(st) ==
    IF SentinelIndex(st) = 0 THEN EmptyMap
    ELSE getStructTags(st[SentinelIndex(st)].tag)

\* for _, p := range oParts { if _, ok := Sources[p]; !ok { return ErrInvalidOrder } }
OrderValidUnchecked(oParts) == TRUE

OrderValid(oParts) == \A i \in 1..Len(oParts) : oParts[i] \in Sources

\* the error parseGofigureField returns
parseGofigureFieldErr(st) ==
    LET tags == SentinelTagMap(st)
    IN  IF sORDER \in DOMAIN tags /\ ~OrderValid(Split(tags[sORDER], ","))
          THEN "ErrInvalidOrder" ELSE "nil"

\* gfg.order after parseGofigureField
ParsedOrder(st) ==
    LET tags == SentinelTagMap(st)
    IN  IF sORDER \in DOMAIN tags THEN Split(tags[sORDER], ",") ELSE DefaultOrder

\* gfg.params after parseGofigureField: params[match[1]][lower(match[2])] = value
\* for every tag name other than "order" that argRe matches (the tag names of
\* the model never map two names to one parameter)
ParsedParams(st) ==
    LET tags  == SentinelTagMap(st)
        names == { n \in DOMAIN tags : n # sORDER /\ Len(argReMatch(n)) > 1 }
        srcs  == { argReMatch(n)[2] : n \in names }
    IN  [o \in srcs |->
           LET mine == { n \in names : argReMatch(n)[2] = o }
           IN  [k \in { ToLower(argReMatch(n)[3]) : n \in mine } |->
                  tags[CHOOSE n \in mine : ToLower(argReMatch(n)[3]) = k]]]

\* gfg.fields after parseFields: one Gofiguritem per field but the sentinel;
\* goValue is the field of the record s handed to ParseStruct
parseFields(st, s) ==
    [n \in { st[i].name : i \in BindableFields(st) } |->
        LET f == st[CHOOSE i \in BindableFields(st) : st[i].name = n]
        IN  [field   |-> n,
             type    |-> f.type,
             keys    |-> IF Len(f.tag) > 0 THEN getStructTags(f.tag) ELSE EmptyMap,
             goValue |-> s]]

\* the Gofiguration ParseStruct(s) returns when parseGofigureField succeeds
ParseStructPlan(st, s) ==
    [order  |-> ParsedOrder(st),
     params |-> ParsedParams(st),
     fields |-> parseFields(st, s),
     s      |-> s]

\* kn := gfi.field; if k, ok := gfi.keys[o]; ok { kn = k }
KeyName(gfi, o) == IF o \in DOMAIN gfi.keys THEN gfi.keys[o] ELSE gfi.field

\* gfg.params[o]: the nil map when o has no parameters
ParamsOf(g, o) == IF o \in DOMAIN g.params THEN g.params[o] ELSE EmptyMap

\* ------------------------------------------------------------------------
\* Coercion: the type switches of populateDefaultType and populateSliceType
\* ------------------------------------------------------------------------

\* the switch of populateDefaultType on one source value: the parse error, or
\* the value handed to SetBool / SetInt / SetUint / SetFloat / SetString
CoerceScalar(kind, val) ==
    CASE kind = "bool" ->
           ParseBool(IF Len(val) = 0 THEN sFALSE ELSE val)
      [] kind \in SignedKinds   -> AsKind(kind, ParseInt(numVal(val), BitSize(kind)))
      [] kind \in UnsignedKinds -> AsKind(kind, ParseUint(numVal(val), BitSize(kind)))
      [] kind \in FloatKinds    -> ParseFloat(numVal(val), BitSize(kind))
      [] kind = "string"        -> [err |-> "nil", v |-> val]
      [] OTHER                  -> [err |-> "ErrUnsupportedFieldType", v |-> 0]

\* the variable val once the switch has run: the bool case assigns "false"
\* to it when it is empty, and prevVal points at this variable
ValAfterSwitch(kind, val) ==
    IF kind = "bool" /\ Len(val) = 0 THEN sFALSE ELSE val

\* one element of a slice, parsed as the inner switch of populateSliceType does
CoerceElem(elem, s) ==
    CASE elem = "string"         -> [err |-> "nil", v |-> s]
      [] elem \in SignedKinds    -> AsKind(elem, ParseInt(numVal(s), BitSize(elem)))
      [] elem \in UnsignedKinds  -> AsKind(elem, ParseUint(numVal(s), BitSize(elem)))
      [] OTHER                   -> [err |-> "skip", v |-> 0]

\* the element kinds the inner switch of populateSliceType has a case for
AppendableElems == {"string"} \cup SignedKinds \cup UnsignedKinds

RECURSIVE AppendAll(_, _, _)
\* for _, s := range val { parse s; append it }: the slice afterwards and the
\* error of the first element that does not parse (elements before it stay)
AppendAll(elem, slice, val) ==
    IF elem \notin AppendableElems \/ Len(val) = 0
      THEN [err |-> "nil", out |-> slice]
      ELSE LET c == CoerceElem(elem, val[1])
           IN  IF c.err # "nil" THEN [err |-> c.err, out |-> slice]
               ELSE AppendAll(elem, Append(slice, c.v), Drop(val, 1))

\* ------------------------------------------------------------------------
\* The sources: what Init, Register, Get and GetArray may return
\* ------------------------------------------------------------------------

\* the strings a source may hold for a key
Vals == { <<>>, <<"1">>, <<"3","0","0">>, <<"x">> }

\* the arrays of strings an array source may hold for a key
ArrVals ==
    { <<>>, << <<"1">> >>, << <<"1">>, <<"1">> >>, << <<"2">>, <<"1">> >>,
      << <<>>, <<"3","0","0">> >>, << <<"1">>, <<"x">> >> }

\* what a source does on Init(params) and on Register(key, ...): succeed or fail
CallResponses == { [t |-> "ok", v |-> <<>>], [t |-> "err", v |-> <<>>] }

\* what a source does on Get(key, previous): return the string it holds,
\* hand back previous (the empty string without one), or fail
GetResponses ==
    { [t |-> "val", v |-> x] : x \in Vals }
    \cup { [t |-> "prev", v |-> <<>>], [t |-> "err", v |-> <<>>] }

\* what a source does on GetArray(key, previous): return its strings or fail
GetArrayResponses ==
    { [t |-> "val", v |-> x] : x \in ArrVals }
    \cup { [t |-> "err", v |-> <<>>] }

\* what Get may do for this key: under NumKey the source holds one of the
\* integers of Numerals
GetResponsesFor(key) ==
    IF key = NumKey THEN { [t |-> "val", v |-> x] : x \in NumeralStrings }
    ELSE GetResponses

\* what GetArray may do for this key: under NumKey the source holds one of
\* the integers of Numerals, alone or after "127"
GetArrayResponsesFor(key) ==
    IF key = NumKey
      THEN { [t |-> "val", v |-> <<x>>] : x \in NumeralStrings }
           \cup { [t |-> "val", v |-> << <<"1", "2", "7">>, x >>] : x \in NumeralStrings }
    ELSE GetArrayResponses

\* the string Get returns for a response that is not a failure
GetResult(resp, prev) ==
    IF resp.t = "prev" THEN (IF Len(prev) = 0 THEN <<>> ELSE prev[1]) ELSE resp.v

\* ------------------------------------------------------------------------
\* State
\* ------------------------------------------------------------------------

VARIABLES
    structType, \* the struct type of the records (reflect.TypeOf(s).Elem())
    rec,        \* the records: record id -> field name -> value
    srcTab,     \* what the sources hold and do, fixed once first asked for
    parsed,     \* <<g>>: the Gofiguration the last ParseStruct returned; <<>>: none
    gfg,        \* <<g>>: the receiver of the running (or last) Apply; <<>>: none
    pc,         \* "idle", or the phase of the running Apply
    op,         \* the entry point that is running
    applyArg,   \* the argument s of the running Apply
    idx,        \* position in gfg.order of the running loop (1-based)
    todo,       \* fields the running range over gfg.fields has not visited yet
    cur,        \* <<name>>: the field of the running inner loop; <<>>: none
    prevVal,    \* <<>>: prevVal is nil; <<v>>: prevVal points at the string v
    err,        \* the error the running Apply will return
    rec0,       \* the records when the running call began
    trace,      \* calls made on sources and Set calls on fields, this call
    results,    \* the finished calls, oldest first (without their traces)
    nCalls      \* entry-point calls begun

vars == <<structType, rec, srcTab, parsed, gfg, pc, op, applyArg, idx, todo, cur,
          prevVal, err, rec0, trace, results, nCalls>>

Plan == gfg[1]

\* one entry of trace
Event(o, src, field, key, prev, ret, e, r) ==
    [op |-> o, src |-> src, field |-> field, key |-> key, prev |-> prev,
     ret |-> ret, err |-> e, rec |-> r]

\* one entry of results
Result(o, arg, e, before, after) ==
    [op |-> o, arg |-> arg, err |-> e, before |-> before, after |-> after]

\* the program before any call, the records being of a struct type of types
Start(types) ==
    /\ structType \in types
    /\ rec = [r \in RecIds |-> ZeroRecord(structType)]
    /\ srcTab = EmptyMap
    /\ parsed = <<>>
    /\ gfg = <<>>
    /\ pc = "idle"
    /\ op = "none"
    /\ applyArg = "r1"
    /\ idx = 1
    /\ todo = {}
    /\ cur = <<>>
    /\ prevVal = <<>>
    /\ err = "nil"
    /\ rec0 = rec
    /\ trace = <<>>
    /\ results = <<>>
    /\ nCalls = 0

Init == Start(StructTypes)

\* ------------------------------------------------------------------------
\* Entry points
\* ------------------------------------------------------------------------

\* Apply begins: defer cleanupSources, then the first Init
BeginApply(o, s) ==
    /\ pc' = "init"
    /\ op' = o
    /\ applyArg' = s
    /\ idx' = 1
    /\ todo' = {}
    /\ cur' = <<>>
    /\ prevVal' = <<>>
    /\ err' = "nil"
    /\ rec0' = rec
    /\ trace' = <<>>

\* ParseStruct(s)
CallParseStruct(s) ==
    /\ pc = "idle"
    /\ nCalls < MaxCalls
    /\ nCalls' = nCalls + 1
    /\ parsed' = IF parseGofigureFieldErr(structType) = "nil"
                   THEN <<ParseStructPlan(structType, s)>> ELSE parsed
    /\ results' = Append(results,
                    Result("ParseStruct", s, parseGofigureFieldErr(structType),
                           rec, rec))
    /\ UNCHANGED <<structType, rec, srcTab, gfg, pc, op, applyArg, idx, todo,
                   cur, prevVal, err, rec0, trace>>

\* gfg.Apply(s) on the Gofiguration an earlier ParseStruct returned
CallApply(s) ==
    /\ pc = "idle"
    /\ nCalls < MaxCalls
    /\ parsed # <<>>
    /\ nCalls' = nCalls + 1
    /\ gfg' = parsed
    /\ BeginApply("Apply", s)
    /\ UNCHANGED <<structType, rec, srcTab, parsed, results>>

\* Gofigure(s): ParseStruct(s), then Apply(s) unless ParseStruct failed
CallGofigure(s) ==
    /\ pc = "idle"
    /\ nCalls < MaxCalls
    /\ nCalls' = nCalls + 1
    /\ IF parseGofigureFieldErr(structType) # "nil"
         THEN /\ results' = Append(results,
                              Result("Gofigure", s, parseGofigureFieldErr(structType),
                                     rec, rec))
              /\ UNCHANGED <<gfg, pc, op, applyArg, idx, todo, cur, prevVal,
                             err, rec0, trace>>
         ELSE /\ gfg' = <<ParseStructPlan(structType, s)>>
              /\ BeginApply("Gofigure", s)
              /\ UNCHANGED results
    /\ UNCHANGED <<structType, rec, srcTab, parsed>>

\* ------------------------------------------------------------------------
\* Apply, one source call at a time
\* ------------------------------------------------------------------------

FieldNames == DOMAIN Plan.fields

\* what source o does on call c with this key: fixed once first asked for
Held(c, o, key, all) ==
    IF <<c, o, key>> \in DOMAIN srcTab THEN {srcTab[<<c, o, key>>]} ELSE all

\* the error of a failing Init or Register, nil of one that succeeds
CallErr(resp, e) == IF resp.t = "err" THEN e ELSE "nil"

AbortRetries(e) ==
    /\ err' = e
    /\ IF e = "nil"
         THEN /\ pc' = "cleanup"
              /\ idx' = 1
              /\ cur' = <<>>
              /\ todo' = {}
              /\ prevVal' = <<>>
         ELSE UNCHANGED <<pc, idx, cur, todo, prevVal>>

AbortNoCleanup(e) ==
    /\ err' = e
    /\ pc' = IF e = "nil" THEN "cleanup" ELSE "idle"
    /\ idx' = 1
    /\ cur' = <<>>
    /\ todo' = {}
    /\ prevVal' = <<>>

\* the error return of Init, Register or Populate: the deferred cleanup runs
Abort(e) ==
    /\ err' = e
    /\ pc' = "cleanup"
    /\ idx' = 1
    /\ cur' = <<>>
    /\ todo' = {}
    /\ prevVal' = <<>>

AfterInitLazy ==
    IF FieldNames = {}
      THEN Abort("nil")
      ELSE /\ pc' = "populate"
           /\ idx' = 1
           /\ todo' = FieldNames
           /\ cur' = <<>>
           /\ UNCHANGED <<err, prevVal>>

\* initSources returned nil: registerFields starts (a range over no fields
\* makes registerFields and populateStruct return nil at once)
AfterInit ==
    IF FieldNames = {}
      THEN Abort("nil")
      ELSE /\ pc' = "register"
           /\ idx' = 1
           /\ todo' = FieldNames
           /\ cur' = <<>>
           /\ UNCHANGED <<err, prevVal>>

\* one iteration of initSources: Sources[o].Init(gfg.params[o])
InitStep ==
    /\ pc = "init"
    /\ LET o == Plan.order[idx]
       IN  \E resp \in Held("Init", o, <<>>, CallResponses) :
           LET e == CallErr(resp, "errInit") IN
             /\ srcTab' = MapPut(srcTab, <<"Init", o, <<>>>>, resp)
             /\ trace' = Append(trace,
                           Event("Init", o, <<>>, <<>>, <<>>, ParamsOf(Plan, o), e, ""))
             /\ IF e # "nil" THEN Abort(e)
                ELSE IF idx < Len(Plan.order)
                  THEN /\ idx' = idx + 1
                       /\ UNCHANGED <<pc, err, cur, todo, prevVal>>
                  ELSE AfterInit
    /\ UNCHANGED <<structType, rec, parsed, gfg, op, applyArg, rec0, results, nCalls>>

\* one iteration of the inner loop of registerFields:
\* Sources[o].Register(kn, "", gfi.keys, gfi.goField.Type); the outer range
\* over the map gfg.fields visits the fields in any order
RegisterStep ==
    /\ pc = "register"
    /\ \E f \in (IF cur = <<>> THEN todo ELSE {cur[1]}) :
         LET gfi == Plan.fields[f]
             o   == Plan.order[idx]
         IN  \E resp \in Held("Register", o, KeyName(gfi, o), CallResponses) :
             LET e == CallErr(resp, "errRegister") IN
             /\ srcTab' = MapPut(srcTab, <<"Register", o, KeyName(gfi, o)>>, resp)
             /\ trace' = Append(trace,
                           Event("Register", o, f, KeyName(gfi, o), <<>>, <<>>, e, ""))
             /\ IF e # "nil" THEN Abort(e)
                ELSE IF idx < Len(Plan.order)
                  THEN /\ idx' = idx + 1
                       /\ cur' = <<f>>
                       /\ todo' = todo \ {f}
                       /\ UNCHANGED <<pc, err, prevVal>>
                ELSE IF todo \ {f} # {}
                  THEN /\ idx' = 1
                       /\ cur' = <<>>
                       /\ todo' = todo \ {f}
                       /\ UNCHANGED <<pc, err, prevVal>>
                ELSE /\ pc' = "populate"
                     /\ idx' = 1
                     /\ cur' = <<>>
                     /\ todo' = FieldNames
                     /\ UNCHANGED <<err, prevVal>>
    /\ UNCHANGED <<structType, rec, parsed, gfg, op, applyArg, rec0, results, nCalls>>

\* the head of the loop of populateStruct: the next field of the range over
\* gfg.fields and the switch on its kind
PopulateNext ==
    /\ pc = "populate"
    /\ cur = <<>>
    /\ \E f \in todo :
         IF Plan.fields[f].type.kind \in RejectedKinds
           THEN Abort("ErrUnsupportedFieldType")
           ELSE /\ cur' = <<f>>
                /\ todo' = todo \ {f}
                /\ idx' = 1
                /\ prevVal' = <<>>
                /\ UNCHANGED <<pc, err>>
    /\ UNCHANGED <<structType, rec, srcTab, parsed, gfg, op, applyArg, rec0,
                   trace, results, nCalls>>

\* the loop over order of the running field goes on, or the field is done
\* and populateStruct goes to its next field, or returns nil
NextSource(pv) ==
    IF idx < Len(Plan.order)
      THEN /\ idx' = idx + 1
           /\ prevVal' = pv
           /\ UNCHANGED <<pc, err, cur, todo>>
    ELSE IF todo # {}
      THEN /\ idx' = 1
           /\ cur' = <<>>
           /\ prevVal' = <<>>
           /\ UNCHANGED <<pc, err, todo>>
    ELSE Abort("nil")

\* the record whose field gfi.goValue.Set* writes: the one ParseStruct was
\* given; the argument s of Apply is not used
SetTarget(gfi, s) == gfi.goValue

SetFieldLost(old, v) == old

\* the field after gfi.goValue.SetBool(v) / SetInt / SetUint / SetFloat / SetString
SetField(old, v) == v

\* one iteration of the loop of populateDefaultType
GetStep ==
    /\ pc = "populate"
    /\ cur # <<>>
    /\ Plan.fields[cur[1]].type.kind # "slice"
    /\ LET gfi  == Plan.fields[cur[1]]
           o    == Plan.order[idx]
           kn   == KeyName(gfi, o)
           kind == gfi.type.kind
           tgt  == SetTarget(gfi, applyArg)
       IN  \E resp \in Held("Get", o, kn, GetResponsesFor(kn)) :
             /\ srcTab' = MapPut(srcTab, <<"Get", o, kn>>, resp)
             /\ IF resp.t = "err"
                  THEN /\ trace' = Append(trace,
                                     Event("Get", o, gfi.field, kn, prevVal, <<>>, "errGet", ""))
                       /\ Abort("errGet")
                       /\ UNCHANGED rec
                  ELSE LET val == GetResult(resp, prevVal)
                           c   == CoerceScalar(kind, val)
                           ev  == Event("Get", o, gfi.field, kn, prevVal, val, "nil", "")
                       IN  IF c.err # "nil"
                             THEN /\ trace' = Append(trace, ev)
                                  /\ Abort(c.err)
                                  /\ UNCHANGED rec
                             ELSE /\ trace' = trace \o
                                       <<ev, Event("Set", <<>>, gfi.field, <<>>, <<>>, c.v, "nil", tgt)>>
                                  /\ rec' = [rec EXCEPT ![tgt][gfi.field] = SetField(@, c.v)]
                                  /\ NextSource(<<ValAfterSwitch(kind, val)>>)
    /\ UNCHANGED <<structType, parsed, gfg, op, applyArg, rec0, results, nCalls>>

\* the Set calls of one source's elements: the slice after each append
SetEvents(gfi, tgt, old, new) ==
    [k \in 1..(Len(new) - Len(old)) |->
        Event("Set", <<>>, gfi.field, <<>>, <<>>, SubSeq(new, 1, Len(old) + k), "nil", tgt)]

ArrayPrevChained(val) == <<val>>

\* prevVal of populateSliceType after an iteration: the assignment
\* prevVal = &val is commented out, so it stays nil
ArrayPrevAfter(val) == <<>>

\* one iteration of the loop of populateSliceType: prevVal stays nil
GetArrayStep ==
    /\ pc = "populate"
    /\ cur # <<>>
    /\ Plan.fields[cur[1]].type.kind = "slice"
    /\ LET gfi  == Plan.fields[cur[1]]
           o    == Plan.order[idx]
           kn   == KeyName(gfi, o)
           tgt  == SetTarget(gfi, applyArg)
       IN  \E resp \in Held("GetArray", o, kn, GetArrayResponsesFor(kn)) :
             /\ srcTab' = MapPut(srcTab, <<"GetArray", o, kn>>, resp)
             /\ IF resp.t = "err"
                  THEN /\ trace' = Append(trace,
                                     Event("GetArray", o, gfi.field, kn, prevVal, <<>>,
                                           "errGetArray", ""))
                       /\ Abort("errGetArray")
                       /\ UNCHANGED rec
                  ELSE LET a  == AppendAll(gfi.type.elem, rec[tgt][gfi.field], resp.v)
                           ev == Event("GetArray", o, gfi.field, kn, prevVal, resp.v, "nil", "")
                       IN  /\ trace' = trace \o <<ev>>
                                         \o SetEvents(gfi, tgt, rec[tgt][gfi.field], a.out)
                           /\ rec' = [rec EXCEPT ![tgt][gfi.field] = a.out]
                           /\ IF a.err # "nil" THEN Abort(a.err)
                              ELSE NextSource(ArrayPrevAfter(resp.v))
    /\ UNCHANGED <<structType, parsed, gfg, op, applyArg, rec0, results, nCalls>>

FieldsRolledBack(e, before, now) == IF e # "nil" THEN before ELSE now

\* the records when Apply returns e: Apply has no code that undoes the Set
\* calls made before an error
FieldsAtReturn(e, before, now) == now

\* one iteration of cleanupSources (the deferred call); Apply returns after
\* the last one
CleanupStep ==
    /\ pc = "cleanup"
    /\ trace' = Append(trace,
                  Event("Cleanup", Plan.order[idx], <<>>, <<>>, <<>>, <<>>, "nil", ""))
    /\ IF idx < Len(Plan.order)
         THEN /\ idx' = idx + 1
              /\ UNCHANGED <<pc, results, rec>>
         ELSE /\ idx' = 1
              /\ pc' = "idle"
              /\ rec' = FieldsAtReturn(err, rec0, rec)
              /\ results' = Append(results,
                              Result(op, applyArg, err, rec0, rec'))
    /\ UNCHANGED <<structType, srcTab, parsed, gfg, op, applyArg, todo,
                   cur, prevVal, err, rec0, nCalls>>

Next ==
    \/ \E s \in RecIds : CallParseStruct(s)
    \/ \E s \in RecIds : CallApply(s)
    \/ \E s \in RecIds : CallGofigure(s)
    \/ InitStep
    \/ RegisterStep
    \/ PopulateNext
    \/ GetStep
    \/ GetArrayStep
    \/ CleanupStep

Spec == Init /\ [][Next]_vars

\* ParseStruct alone, on structs whose field tag has a malformed token
TagInit == Start(TagStructTypes)

TagNext == \E s \in RecIds : CallParseStruct(s)

TagSpec == TagInit /\ [][TagNext]_vars

\* ------------------------------------------------------------------------
\* Properties
\* ------------------------------------------------------------------------

\* a resolution has run to its end: trace, err, rec0 and rec are those of the
\* last Apply
ResolutionDone == pc = "idle" /\ trace # <<>>

Succeeded == ResolutionDone /\ err = "nil"

\* the positions of trace that hold a call of kind o
EventsOf(o) == { k \in DOMAIN trace : trace[k].op = o }

\* how many calls of the same kind for the same field trace holds up to k:
\* the position in order of the source that call k is made on
Nth(k) ==
    Cardinality({ j \in 1..k : trace[j].op = trace[k].op
                               /\ trace[j].field = trace[k].field })

\* the last call of kind o for field f in trace (0 if none)
LastOf(o, f) ==
    LET ks == { k \in EventsOf(o) : trace[k].field = f }
    IN  IF ks = {} THEN 0 ELSE CHOOSE k \in ks : \A j \in ks : j <= k

ScalarKinds == {"bool", "string"} \cup SignedKinds \cup UnsignedKinds \cup FloatKinds

\* a type the spec gives a coercion rule
HasCoercionRule(t) ==
    \/ t.kind \in ScalarKinds
    \/ t.kind = "slice" /\ t.elem \in AppendableElems

\* C1: in every resolution that has ended, Cleanup has been called exactly
\* once on each source named in order, in the order given, and after every
\* Init, Register, Get and GetArray call.
C1_CleanupOncePerSource ==
    ResolutionDone =>
      /\ \A o \in { Plan.order[i] : i \in 1..Len(Plan.order) } :
           Cardinality({ k \in EventsOf("Cleanup") : trace[k].src = o }) = 1
      /\ \A k \in EventsOf("Cleanup") :
           /\ trace[k].src = Plan.order[Nth(k)]
           /\ \A j \in DOMAIN trace :
                trace[j].op \in {"Init", "Register", "Get", "GetArray"} => j < k

\* C2: every Get call for a scalar field is made on the sources in the order
\* of order; the first receives no previous value and each later one receives
\* exactly the string the Get before it (for the same field) returned.
C2_PreviousIsEarlierResult ==
    \A k \in EventsOf("Get") :
      /\ trace[k].src = Plan.order[Nth(k)]
      /\ LET before == { j \in EventsOf("Get") :
                           j < k /\ trace[j].field = trace[k].field }
         IN  IF before = {} THEN trace[k].prev = <<>>
             ELSE trace[k].prev =
                    <<trace[CHOOSE j \in before : \A i \in before : i <= j].ret>>

LastQuery ==
    LET ks == EventsOf("Get") \cup EventsOf("GetArray")
    IN  IF ks = {} THEN 0 ELSE CHOOSE k \in ks : \A j \in ks : j <= k

\* C4: in scalar population only the value of the last source in order is
\* parsed: a resolution is never aborted by the parse error of a value that
\* a source before the last one returned.
C4_OnlyLastValueCoerced ==
    (pc \in {"cleanup", "idle"} /\ trace # <<>>
       /\ err \in {"ErrSyntax", "ErrRange"} /\ trace[LastQuery].op = "Get")
      => Nth(LastQuery) = Len(Plan.order)

\* C5: after a successful resolution with order = [a, b], a sequence field
\* with a supported element type holds the coerced elements a.GetArray
\* returned followed by the coerced elements b.GetArray returned.
C5_SequenceIsConcatenation ==
    (Succeeded /\ Len(Plan.order) = 2) =>
      \A f \in FieldNames :
        (Plan.fields[f].type.kind = "slice"
           /\ Plan.fields[f].type.elem \in AppendableElems) =>
          \E j, k \in EventsOf("GetArray") :
            /\ j < k
            /\ trace[j].field = f /\ trace[k].field = f
            /\ rec[Plan.fields[f].goValue][f] =
                 AppendAll(Plan.fields[f].type.elem, <<>>, trace[j].ret).out
                 \o AppendAll(Plan.fields[f].type.elem, <<>>, trace[k].ret).out

\* C6: two successful binds of the same record, the sources holding the same
\* values in both, leave the record with the same field values.
C6_BindTwiceSameValues ==
    \A i, j \in DOMAIN results :
      (/\ i < j
       /\ results[i].op = "Gofigure" /\ results[j].op = "Gofigure"
       /\ results[i].arg = results[j].arg
       /\ results[i].err = "nil" /\ results[j].err = "nil")
      => results[j].after[results[j].arg] = results[i].after[results[i].arg]

\* the order directive of the struct type names a source that is not registered
NamesUnregistered ==
    /\ sORDER \in DOMAIN SentinelTagMap(structType)
    /\ \E i \in DOMAIN Split(SentinelTagMap(structType)[sORDER], ",") :
         Split(SentinelTagMap(structType)[sORDER], ",")[i] \notin Sources

\* C7: when the order directive names an unregistered source, every
\* ParseStruct and Gofigure call returns ErrInvalidOrder, no plan is
\* returned, no field of any record is changed and no call is made on any
\* source.
C7_InvalidOrderRejected ==
    NamesUnregistered =>
      /\ \A k \in DOMAIN results : results[k].err = "ErrInvalidOrder"
      /\ parsed = <<>>
      /\ gfg = <<>>
      /\ pc = "idle"
      /\ trace = <<>>
      /\ srcTab = EmptyMap
      /\ rec = [r \in RecIds |-> ZeroRecord(structType)]

\* Gofigure has returned on a struct whose order directive names "bogus"
C7_Witness ==
    /\ NamesUnregistered
    /\ Len(results) > 0
    /\ results[1].op = "Gofigure"
    /\ results[1].err = "ErrInvalidOrder"

\* C8: a resolution never succeeds on a struct with a field whose type has
\* no coercion rule (it returns ErrUnsupportedFieldType instead).
C8_UnsupportedTypeRejected ==
    Succeeded => \A f \in FieldNames : HasCoercionRule(Plan.fields[f].type)

\* C9: the source names of a plan's order are pairwise distinct, and no
\* source receives two Register calls for the same field in one resolution.
C9_RegisterOncePerPair ==
    /\ \A g \in { parsed, gfg } \ { <<>> } :
         \A i, j \in 1..Len(g[1].order) : i # j => g[1].order[i] # g[1].order[j]
    /\ \A j, k \in EventsOf("Register") :
         (j # k /\ trace[j].field = trace[k].field) => trace[j].src # trace[k].src

\* C10: Apply writes into the record it is given and into no other record.
C10_ApplyWritesItsArgument ==
    /\ \A k \in EventsOf("Set") : trace[k].rec = applyArg
    /\ pc # "idle" => \A r \in RecIds \ {applyArg} : rec[r] = rec0[r]

\* C11: for a fixed record shape and fixed source results every run returns
\* the same error and leaves the same fields written (the error is that of
\* the first failing field in declaration order): two binds of the same
\* record that start from the same field values end with the same error and
\* the same field values.
C11_FirstFailingFieldDeterministic ==
    \A i, j \in DOMAIN results :
      (/\ i < j
       /\ results[i].op = "Gofigure" /\ results[j].op = "Gofigure"
       /\ results[i].arg = results[j].arg
       /\ results[i].before = results[j].before)
      => /\ results[j].err = results[i].err
         /\ results[j].after = results[i].after

\* the Get and GetArray calls made for field f
Queries(f) ==
    { k \in EventsOf("Get") \cup EventsOf("GetArray") : trace[k].field = f }

\* the errors a Get or GetArray call, or the coercion of its result, ends
\* Populate with
QueryErrors == {"errGet", "errGetArray", "ErrSyntax", "ErrRange"}

\* the population of f ran through every source of order without an error
Completed(f) ==
    /\ Cardinality(Queries(f)) = Len(Plan.order)
    /\ ~(err \in QueryErrors /\ trace[LastQuery].field = f)

\* the call for f on the n-th source of order
QueryAt(f, n) == CHOOSE k \in Queries(f) : Nth(k) = n

RECURSIVE ResolvedSlice(_, _)
\* a sequence field after the elements of the first n sources were appended
ResolvedSlice(f, n) ==
    IF n = 0 THEN rec0[Plan.fields[f].goValue][f]
    ELSE AppendAll(Plan.fields[f].type.elem, ResolvedSlice(f, n - 1),
                   trace[QueryAt(f, n)].ret).out

\* the value resolution gives a field whose population completed
Resolved(f) ==
    IF Plan.fields[f].type.kind = "slice"
      THEN ResolvedSlice(f, Len(Plan.order))
      ELSE CoerceScalar(Plan.fields[f].type.kind,
                        trace[QueryAt(f, Len(Plan.order))].ret).v

\* C12: nothing is rolled back and nothing else is touched: after an error
\* of Init or Register every field of every record is unchanged; after an
\* error of Populate every field whose population completed holds its
\* resolved value, every field not visited holds the value it had before
\* the call, and the records the plan is not bound to are unchanged.
C12_NoRollback ==
    (ResolutionDone /\ err # "nil") =>
      IF err \in {"errInit", "errRegister"}
        THEN rec = rec0
        ELSE /\ \A f \in FieldNames :
                  LET tgt == Plan.fields[f].goValue
                  IN  /\ Completed(f) => rec[tgt][f] = Resolved(f)
                      /\ Queries(f) = {} => rec[tgt][f] = rec0[tgt][f]
             /\ \A r \in RecIds :
                  (\A f \in FieldNames : Plan.fields[f].goValue # r)
                    => rec[r] = rec0[r]

\* Populate failed on one field after the population of another field
\* completed and changed that field
C12_Witness ==
    /\ ResolutionDone
    /\ err \in QueryErrors \cup {"ErrUnsupportedFieldType"}
    /\ \E f \in FieldNames :
         /\ Completed(f)
         /\ rec[Plan.fields[f].goValue][f] # rec0[Plan.fields[f].goValue][f]
         /\ rec[Plan.fields[f].goValue][f] = Resolved(f)

NumericKinds == SignedKinds \cup UnsignedKinds \cup FloatKinds

\* C13: when the last source in order returns (without an error) the empty
\* string for a bool or numeric field, the field is set to false, 0 or 0.0
\* and the resolution does not end with a parse error for that field.
C13_EmptyIsZero ==
    \A k \in EventsOf("Get") :
      LET f    == trace[k].field
          kind == Plan.fields[f].type.kind
          tgt  == Plan.fields[f].goValue
      IN  (/\ Nth(k) = Len(Plan.order)
           /\ trace[k].err = "nil"
           /\ trace[k].ret = <<>>
           /\ kind \in {"bool"} \cup NumericKinds)
          => /\ k < Len(trace)
             /\ trace[k + 1].op = "Set"
             /\ trace[k + 1].field = f
             /\ ~(err \in {"ErrSyntax", "ErrRange"} /\ LastQuery = k)
             /\ IF kind = "bool" THEN rec[tgt][f] = FALSE
                ELSE IF kind \in FloatKinds THEN rec[tgt][f] = [m |-> 0, e |-> 0]
                ELSE IF kind \in WideKinds
                  THEN rec[tgt][f] = [neg |-> FALSE, mag |-> <<"0">>]
                ELSE rec[tgt][f] = 0

\* a numeric field that the first source set to 1 and the last source, which
\* returned the empty string, set back to 0
C13_Witness ==
    /\ Succeeded
    /\ Len(Plan.order) = 2
    /\ \E f \in FieldNames :
         /\ Plan.fields[f].type.kind \in NumericKinds
         /\ \E j, k \in EventsOf("Get") :
              /\ j < k
              /\ trace[j].field = f /\ trace[k].field = f
              /\ trace[j].ret = <<"1">> /\ trace[k].ret = <<>>
         /\ rec[Plan.fields[f].goValue][f] = Zero(Plan.fields[f].type)

RECURSIVE TagMapOf(_, _)
\* the mapping the tokens of ps denote, a later token replacing an earlier
\* one with the same key
TagMapOf(ps, m) ==
    IF Len(ps) = 0 THEN m
    ELSE TagMapOf(Tail(ps), MapPut(m, ps[1].key, ps[1].val))

\* C14: for a tag made of k well-formed key:"value" tokens followed by a
\* malformed token, getStructTags (as ParseStruct calls it on the tag of a
\* field) returns exactly the mapping of the k tokens and ignores the
\* malformed token and everything after it.
C14_TagPrefixKept ==
    parsed # <<>> =>
      \A ps \in PairSeqs, bad \in BadTails :
        structType[1].tag = TagRender(ps, bad)
          => parsed[1].fields[fA].keys = TagMapOf(ps, EmptyMap)

\* ParseStruct has returned on a tag with two tokens of different keys, one
\* value holding an escaped quote, then a token without a colon and a
\* well-formed token after it
C14_Witness ==
    /\ parsed # <<>>
    /\ structType[1].tag =
         <<"a", ":", "\"", "x", "\\", "\"", "y", "\"", " ",
           "b", ":", "\"", "1", " ", "2", "\"", " ",
           "b", " ", "c", ":", "\"", "1", "\"">>
    /\ DOMAIN parsed[1].fields[fA].keys = {<<"a">>, <<"b">>}
    /\ parsed[1].fields[fA].keys[<<"a">>] = <<"x", "\"", "y">>
    /\ parsed[1].fields[fA].keys[<<"b">>] = <<"1", " ", "2">>

\* the entry of results the last Apply or Gofigure call returned with
LastReturn ==
    LET ks == { k \in DOMAIN results : results[k].op \in {"Apply", "Gofigure"} }
    IN  results[CHOOSE k \in ks : \A j \in ks : j <= k]

\* the sources Cleanup was called on, in the order of the calls
RECURSIVE CleanupsFrom(_)
CleanupsFrom(k) ==
    IF k > Len(trace) THEN <<>>
    ELSE IF trace[k].op = "Cleanup" THEN <<trace[k].src>> \o CleanupsFrom(k + 1)
    ELSE CleanupsFrom(k + 1)

\* C15: when Init of a source returns an error, no Init is called on a later
\* source, no Register, Get or GetArray is called at all, only Cleanup calls
\* follow, Cleanup is called on every source of order in order, and the
\* call returns that error.
C15_InitErrorStops ==
    \A k \in EventsOf("Init") :
      trace[k].err # "nil" =>
        /\ \A j \in 1..(k - 1) : trace[j].op = "Init"
        /\ \A j \in (k + 1)..Len(trace) : trace[j].op = "Cleanup"
        /\ err = trace[k].err
        /\ ResolutionDone =>
             /\ CleanupsFrom(1) = Plan.order
             /\ LastReturn.err = trace[k].err

\* Init of the first of two sources failed; Cleanup ran on both
C15_Witness ==
    /\ ResolutionDone
    /\ Len(Plan.order) = 2
    /\ trace[1].op = "Init" /\ trace[1].err = "errInit"
    /\ Len(trace) = 3
    /\ trace[3].op = "Cleanup" /\ trace[3].src = Plan.order[2]
    /\ LastReturn.err = "errInit"

\* C16: the phases of a resolution are strictly ordered: every Init call
\* comes before every Register call and every Register call before every
\* Get and GetArray call, and when the first Get or GetArray call is made
\* Register has been called for every field on every source of order.
C16_PhasesOrdered ==
    /\ \A j \in EventsOf("Init"), k \in EventsOf("Register") : j < k
    /\ \A j \in EventsOf("Register"), k \in DOMAIN trace :
         trace[k].op \in {"Get", "GetArray"} => j < k
    /\ LastQuery # 0 =>
         \A f \in FieldNames, i \in 1..Len(Plan.order) :
           \E j \in EventsOf("Register") :
             /\ trace[j].field = f
             /\ Nth(j) = i
             /\ trace[j].src = Plan.order[i]
             /\ trace[j].err = "nil"

\* a resolution of a struct with two fields and two sources in which Get
\* has been called
C16_Witness ==
    /\ trace # <<>>
    /\ Cardinality(FieldNames) = 2
    /\ Len(Plan.order) = 2
    /\ Cardinality(EventsOf("Init")) = 2
    /\ Cardinality(EventsOf("Register")) = 4
    /\ EventsOf("Get") # {}

\* C17: an error that Register, Get or GetArray of a source returns is the
\* error the call returns, and after it no Register, Get or GetArray call
\* is made on any source for any field: only Cleanup calls follow.
C17_SourceErrorStops ==
    \A k \in DOMAIN trace :
      (trace[k].op \in {"Register", "Get", "GetArray"} /\ trace[k].err # "nil") =>
        /\ \A j \in (k + 1)..Len(trace) : trace[j].op = "Cleanup"
        /\ err = trace[k].err
        /\ ResolutionDone => LastReturn.err = trace[k].err

\* Get of the second source failed after Get of the first had succeeded,
\* and the call has returned
C17_Witness ==
    /\ ResolutionDone
    /\ \E k \in EventsOf("Get") :
         /\ Nth(k) = 2
         /\ trace[k].err = "errGet"
         /\ k < Len(trace)
         /\ LastReturn.err = "errGet"

\* C18: every GetArray call receives no previous value, whatever the
\* GetArray calls before it returned.
C18_GetArrayGetsNoPrevious ==
    \A k \in EventsOf("GetArray") : trace[k].prev = <<>>

\* GetArray has been called on the second source after the first source
\* returned two elements
C18_Witness ==
    \E j, k \in EventsOf("GetArray") :
      /\ j < k
      /\ trace[j].field = trace[k].field
      /\ Len(trace[j].ret) = 2
      /\ Nth(k) = 2
      /\ trace[k].prev = <<>>

\* the entry of Numerals for the string s
NumeralOf(s) == CHOOSE t \in Numerals : t.s = s

\* the value a field of this kind holds when it holds the integer of t
ExactValue(kind, t) == IF kind \in WideKinds THEN t.num ELSE t.small

RECURSIVE LeadFit(_, _)
\* how many elements at the head of val are in the range of kind
LeadFit(kind, val) ==
    IF Len(val) = 0 \/ kind \notin NumeralOf(val[1]).fits THEN 0
    ELSE 1 + LeadFit(kind, Tail(val))

\* C19: for an integer field or sequence element of 8, 16, 32 or 64 bits
\* and a source value that is a base-10 integer: when the integer is in
\* the range of the kind it is stored exactly; when it is outside, nothing
\* is stored for it (no wrapped or truncated value) and the resolution
\* ends with an error.
C19_IntegerRangeChecked ==
    /\ \A k \in EventsOf("Get") :
         LET f    == trace[k].field
             kind == Plan.fields[f].type.kind
         IN  (/\ kind \in FixedWidthKinds
              /\ trace[k].err = "nil"
              /\ trace[k].ret \in NumeralStrings)
             => IF kind \in NumeralOf(trace[k].ret).fits
                  THEN /\ k < Len(trace)
                       /\ trace[k + 1].op = "Set"
                       /\ trace[k + 1].field = f
                       /\ trace[k + 1].ret = ExactValue(kind, NumeralOf(trace[k].ret))
                  ELSE /\ k < Len(trace) => trace[k + 1].op = "Cleanup"
                       /\ err \in {"ErrRange", "ErrSyntax"}
                       /\ ResolutionDone => LastReturn.err = err
    /\ \A k \in EventsOf("GetArray") :
         LET f    == trace[k].field
             kind == Plan.fields[f].type.elem
             val  == trace[k].ret
             n    == LeadFit(kind, val)
         IN  (/\ kind \in FixedWidthKinds
              /\ trace[k].err = "nil"
              /\ \A i \in DOMAIN val : val[i] \in NumeralStrings)
             => /\ k + n <= Len(trace)
                /\ \A i \in 1..n :
                     /\ trace[k + i].op = "Set"
                     /\ trace[k + i].field = f
                     /\ trace[k + i].ret[Len(trace[k + i].ret)]
                          = ExactValue(kind, NumeralOf(val[i]))
                /\ k + n < Len(trace) => trace[k + n + 1].op # "Set"
                /\ n < Len(val) =>
                     /\ k + n < Len(trace) => trace[k + n + 1].op = "Cleanup"
                     /\ err \in {"ErrRange", "ErrSyntax"}
                     /\ ResolutionDone => LastReturn.err = err

\* a []int32 field for which the source returned 127 and 2^31: 127 was
\* appended and the resolution ended with the range error of 2^31
C19_Witness ==
    /\ ResolutionDone
    /\ err = "ErrRange"
    /\ Plan.fields[fA].type = SliceOf("int32")
    /\ \E k \in EventsOf("GetArray") :
         /\ trace[k].ret = << <<"1", "2", "7">>,
                              <<"2", "1", "4", "7", "4", "8", "3", "6", "4", "8">> >>
         /\ trace[k + 1].op = "Set"
         /\ trace[k + 2].op = "Cleanup"
    /\ rec[Plan.fields[fA].goValue][fA] = << [neg |-> FALSE, mag |-> <<"1", "2", "7">>] >>

====
